---- MODULE Spec2Model ----
(***************************************************************************)
(* Greenwald-Khanna quantile summary of the trace agent (package quantile) *)
(* The store of a Summary is the base level (next[0] chain) of its         *)
(* skiplist, modelled as the sequence of the Entries of the nodes after    *)
(* the sentinel head.  An Entry is [V, G, Delta, Samples]; a nil Samples   *)
(* slice is the empty sequence.                                            *)
(***************************************************************************)
EXTENDS Integers, Sequences, FiniteSets, TLC

VARIABLES sum, obs, ids, via, op, steps, cad, merging,
          height, heap, gone, lastStoreOp,
          graph, maps, mu, pc, flushers, spans, flushes, payloads, inPayload,
          outPayload, accepted, swapped

summaryVars == <<sum, obs, ids, via, op, steps, cad>>

skiplistVars == <<height, heap, gone, lastStoreOp>>

grapherVars == <<graph, maps, mu, pc, flushers, spans, flushes, payloads,
                 inPayload,
                 outPayload, accepted, swapped>>

vars == <<summaryVars, merging, skiplistVars, grapherVars>>

\* what the steps on the summaries sum[i] leave alone
besidesSummaries == <<merging, skiplistVars, grapherVars>>

\* what the steps of TestQuantilesMerging leave alone
besidesMerging == <<summaryVars, skiplistVars, grapherVars>>

\* what the steps on the skiplist with all its levels leave alone
besidesSkiplist == <<summaryVars, merging, grapherVars>>

\* what the steps of the grapher leave alone
besidesGrapher == <<summaryVars, merging, skiplistVars>>

\* ---- bounds ------------------------------------------------------------
Sums == {1, 2}
Values == {-1, 0, 2}
Sids == {7, 8}
BulkValues == {1, 2, 3}
MaxN == 2
MaxLen == 4
RunLen == 148
MaxSteps == 4
Starts == {0, 1}
MaxCount == 90
SkipValues == {1, 2}
MaxDrawn == 2
MaxNodes == 4
Callers == {1, 2}
SpanHosts == {<<"", "">>, <<"web", "">>, <<"web", "db">>}
MaxSpans == 2
MaxFlushes == 2
MaxPayloads == 2

\* quantiles queried, as <<numerator, denominator>>, all exactly
\* representable as float64 so that q*float64(N)+0.5 is computed exactly
Qs == {<<0, 1>>, <<1, 4>>, <<1, 2>>, <<3, 4>>, <<1, 1>>}

\* ---- program constants ---------------------------------------------------
\* const epsilon float64 = 0.01, kept as the denominator of 1/100
EpsilonDen == 100

\* int(2 * epsilon * float64(n))
TwoEpsN(n) == (2 * n) \div EpsilonDen

\* int(epsilon * float64(n))
EpsN(n) == n \div EpsilonDen

\* int(1.0 / float64(2.0*epsilon))
CompressEvery == EpsilonDen \div 2

\* ---- skiplist, base level ------------------------------------------------
\* the zero Entry held by the sentinel head node (head.value is never set)
HeadValue == [V |-> 0, G |-> 0, Delta |-> 0, Samples |-> <<>>]

NewSkiplist == <<>>

NewSummary == [data |-> NewSkiplist, N |-> 0]

\* index of the node the base-level search stops at: the walk
\* "for curr.next[0] != nil && e.V >= curr.next[0].value.V" goes over the
\* entries before the first one with a greater value
SearchPos(data, v) ==
  IF \A k \in 1..Len(data) : v >= data[k].V THEN Len(data)
  ELSE (CHOOSE k \in 1..Len(data) :
          /\ ~(v >= data[k].V)
          /\ \A j \in 1..(k - 1) : v >= data[j].V) - 1

InsertAt(data, p, e) ==
  SubSeq(data, 1, p) \o <<e>> \o SubSeq(data, p + 1, Len(data))

\* Skiplist.Insert: the new node is linked right after the stop node
SkiplistInsert(data, e) == InsertAt(data, SearchPos(data, e.V), e)

\* position (1-based) of the node Skiplist.Insert returns
InsertedPos(data, e) == SearchPos(data, e.V) + 1

\* Skiplist.Remove of the node at position p
SkiplistRemove(data, p) ==
  SubSeq(data, 1, p - 1) \o SubSeq(data, p + 1, Len(data))

\* for _, e := range es { data.Insert(e) }, here for es[lo..hi]; the range is
\* split in halves to keep the evaluation shallow
RECURSIVE InsertRange(_, _, _, _)
InsertRange(data, es, lo, hi) ==
  IF lo > hi THEN data
  ELSE IF lo = hi THEN SkiplistInsert(data, es[lo])
  ELSE LET mid == (lo + hi) \div 2
           d1 == InsertRange(data, es, lo, mid)
       IN IF Len(d1) >= 0 THEN InsertRange(d1, es, mid + 1, hi) ELSE d1

InsertAll(data, es) == InsertRange(data, es, 1, Len(es))

\* ---- skiplist, all levels --------------------------------------------------
\* const maxHeight = 31
maxHeight == 31

\* the nil pointer, and the address of the sentinel head node
Nil == -1
HeadNode == 0

\* the nodes by address: heap[0] is the head NewSkiplist makes, with
\* maxHeight next slots and no prev slice; the node of the n-th Insert call
\* gets the address n.  Slot i of a Go slice is element i + 1 here.
NewHeap ==
  [x \in {HeadNode} |-> [V |-> 0, next |-> [k \in 1..maxHeight |-> Nil], prev |-> <<>>]]

\* for curr.next[i] != nil && e.V > curr.next[i].value.V { curr = ... }
RECURSIVE Advance_Strict(_, _, _, _)
Advance_Strict(h, curr, i, v) ==
  LET nx == h[curr].next[i + 1]
  IN IF nx # Nil /\ v > h[nx].V THEN Advance_Strict(h, nx, i, v) ELSE curr

\* for curr.next[i] != nil && e.V >= curr.next[i].value.V { curr = curr.next[i] }
RECURSIVE Advance(_, _, _, _)
Advance(h, curr, i, v) ==
  LET nx == h[curr].next[i + 1]
  IN IF nx # Nil /\ v >= h[nx].V THEN Advance(h, nx, i, v) ELSE curr

\* the four assignments that link node after curr at level i
LinkLevel(h, curr, node, i) ==
  LET nx == h[curr].next[i + 1]
      h1 == [h EXCEPT ![node].next[i + 1] = nx]
      h2 == IF nx # Nil /\ h1[nx].prev[i + 1] # Nil
            THEN [h1 EXCEPT ![nx].prev[i + 1] = node]
            ELSE h1
      h3 == [h2 EXCEPT ![curr].next[i + 1] = node]
  IN [h3 EXCEPT ![node].prev[i + 1] = curr]

\* for i := s.height; i >= 0; i-- { ... } from level i down, curr carried on
RECURSIVE InsertLevels(_, _, _, _, _)
InsertLevels(h, curr, node, level, i) ==
  IF i < 0 THEN h
  ELSE LET c == Advance(h, curr, i, h[node].V)
       IN IF i > level THEN InsertLevels(h, c, node, level, i - 1)
          ELSE InsertLevels(LinkLevel(h, c, node, i), c, node, level, i - 1)

\* if level > s.height { s.height++; level = s.height }
GrownHeight(ht, drawn) == IF drawn > ht THEN ht + 1 ELSE ht

NodeLevel(ht, drawn) == IF drawn > ht THEN ht + 1 ELSE drawn

\* Skiplist.Insert of an Entry with value v, drawn = the number of trailing
\* one bits of rand.Int31(); the new node gets the address node
LinkedInsert(h, ht, node, v, drawn) ==
  LET level == NodeLevel(ht, drawn)
      fresh == [V |-> v, next |-> [k \in 1..(level + 1) |-> Nil],
                prev |-> [k \in 1..(level + 1) |-> Nil]]
      h0 == [x \in DOMAIN h \cup {node} |-> IF x = node THEN fresh ELSE h[x]]
  IN InsertLevels(h0, HeadNode, node, level, GrownHeight(ht, drawn))

\* one iteration of the loop of Remove that leaves next.prev[i] as it is
UnlinkLevel_KeepsPrev(h, node, i) ==
  LET pv == h[node].prev[i + 1]
      nx == h[node].next[i + 1]
      h1 == IF pv # Nil THEN [h EXCEPT ![pv].next[i + 1] = nx] ELSE h
  IN [h1 EXCEPT ![node].next[i + 1] = Nil, ![node].prev[i + 1] = Nil]

\* one iteration of the loop of Remove
UnlinkLevel(h, node, i) ==
  LET pv == h[node].prev[i + 1]
      nx == h[node].next[i + 1]
      h1 == IF pv # Nil THEN [h EXCEPT ![pv].next[i + 1] = nx] ELSE h
      h2 == IF nx # Nil THEN [h1 EXCEPT ![nx].prev[i + 1] = pv] ELSE h1
  IN [h2 EXCEPT ![node].next[i + 1] = Nil, ![node].prev[i + 1] = Nil]

\* for i := range node.next { ... } from slot i on
RECURSIVE RemoveLevels(_, _, _)
RemoveLevels(h, node, i) ==
  IF i >= Len(h[node].next) THEN h
  ELSE RemoveLevels(UnlinkLevel(h, node, i), node, i + 1)

\* Skiplist.Remove
LinkedRemove(h, node) == RemoveLevels(h, node, 0)

\* ---- Summary.compress ----------------------------------------------------
\* changeSample := rand.Intn(1) == 0 ; rand.Intn(1) is always 0
changeSample == TRUE

\* an iteration that, after a value merge, moves on past the successor
CompressStep_SkipsSuccessor(c, epsN) ==
  IF c.i + 1 > Len(c.data) THEN c
  ELSE
    LET t == c.data[c.i]
        nt == c.data[c.i + 1]
        smp == IF changeSample THEN t.Samples ELSE nt.Samples
    IN IF t.V = nt.V
       THEN LET m2 == c.missing + nt.G
                nt2 == [nt EXCEPT !.Delta = nt.Delta + m2, !.G = t.G, !.Samples = smp]
            IN [data |-> SkiplistRemove([c.data EXCEPT ![c.i + 1] = nt2], c.i),
                i |-> c.i + 1, missing |-> m2]
       ELSE IF t.G + nt.G + c.missing + nt.Delta < epsN
       THEN LET nt2 == [nt EXCEPT !.G = nt.G + t.G + c.missing, !.Samples = smp]
            IN [data |-> SkiplistRemove([c.data EXCEPT ![c.i + 1] = nt2], c.i),
                i |-> c.i, missing |-> 0]
       ELSE LET nt2 == [nt EXCEPT !.G = nt.G + c.missing]
            IN [data |-> [c.data EXCEPT ![c.i + 1] = nt2],
                i |-> c.i + 1, missing |-> 0]

\* one iteration of the loop of compress: c.i is the position of elt,
\* c.missing the running counter; the loop is over when elt has no successor
CompressStep(c, epsN) ==
  IF c.i + 1 > Len(c.data) THEN c
  ELSE
    LET t == c.data[c.i]
        nt == c.data[c.i + 1]
        smp == IF changeSample THEN t.Samples ELSE nt.Samples
    IN IF t.V = nt.V
       THEN LET m2 == c.missing + nt.G
                nt2 == [nt EXCEPT !.Delta = nt.Delta + m2, !.G = t.G, !.Samples = smp]
            IN [data |-> SkiplistRemove([c.data EXCEPT ![c.i + 1] = nt2], c.i),
                i |-> c.i, missing |-> m2]
       ELSE IF t.G + nt.G + c.missing + nt.Delta < epsN
       THEN LET nt2 == [nt EXCEPT !.G = nt.G + t.G + c.missing, !.Samples = smp]
            IN [data |-> SkiplistRemove([c.data EXCEPT ![c.i + 1] = nt2], c.i),
                i |-> c.i, missing |-> 0]
       ELSE LET nt2 == [nt EXCEPT !.G = nt.G + c.missing]
            IN [data |-> [c.data EXCEPT ![c.i + 1] = nt2],
                i |-> c.i + 1, missing |-> 0]

\* k iterations of the loop, split in halves to keep the evaluation shallow
RECURSIVE CompressSteps(_, _, _)
CompressSteps(c, epsN, k) ==
  IF k = 0 THEN c
  ELSE IF k = 1 THEN CompressStep(c, epsN)
  ELSE LET c1 == CompressSteps(c, epsN, k \div 2)
       IN IF c1.i > 0 THEN CompressSteps(c1, epsN, k - (k \div 2)) ELSE c1

\* the whole sweep: every iteration removes elt or moves on to its successor,
\* so a store of n entries is swept in n - 1 iterations
CompressFrom(data, epsN) ==
  IF Len(data) < 2 THEN data
  ELSE CompressSteps([data |-> data, i |-> 1, missing |-> 0], epsN,
                     Len(data) - 1).data

\* compress that takes N for the number of entries it keeps
compress_CountsEntries(s) ==
  [data |-> CompressFrom(s.data, TwoEpsN(s.N)),
   N |-> Len(CompressFrom(s.data, TwoEpsN(s.N)))]

compress(s) == [s EXCEPT !.data = CompressFrom(s.data, TwoEpsN(s.N))]

\* ---- Summary.Insert ------------------------------------------------------
\* an Insert that tests the count before s.N++
InsertCompresses_BeforeIncrement(n) == (n - 1) % CompressEvery = 0

\* does this Insert call end with the automatic compress?
InsertCompresses(n) == n % CompressEvery = 0

SummaryInsert(s, v, t) ==
  LET e == [V |-> v, G |-> 1, Delta |-> 0, Samples |-> <<t>>]
      p == InsertedPos(s.data, e)
      d1 == SkiplistInsert(s.data, e)
      n == s.N + 1
      d2 == IF p # 1 /\ p # Len(d1)
            THEN [d1 EXCEPT ![p].Delta = TwoEpsN(n)]
            ELSE d1
      s2 == [data |-> d2, N |-> n]
  IN IF InsertCompresses(n) THEN compress(s2) ELSE s2

\* ---- Summary.Quantile ----------------------------------------------------
\* r := int(q*float64(s.N) + 0.5) for q = q[1]/q[2]
QuantileRank(q, n) == (2 * q[1] * n + q[2]) \div (2 * q[2])

Panic == [panic |-> TRUE]

\* one iteration of the loop of Quantile: w.i is the position of elt, w.rmin
\* the running sum of G, w.res the value returned (Panic while none is)
QuantileStep(data, w, rPlusEps) ==
  IF w.res # Panic \/ w.i > Len(data) THEN w
  ELSE
    LET t == data[w.i]
        rmin == w.rmin + t.G
    IN IF w.i = Len(data)
       THEN [w EXCEPT !.res = [panic |-> FALSE, V |-> t.V, Samples |-> t.Samples]]
       ELSE LET n == data[w.i + 1]
            IN IF rPlusEps < rmin + n.G + n.Delta
               THEN IF rPlusEps < rmin + n.G
                    THEN [w EXCEPT !.res = [panic |-> FALSE, V |-> t.V,
                                            Samples |-> t.Samples]]
                    ELSE [w EXCEPT !.res = [panic |-> FALSE, V |-> n.V,
                                            Samples |-> n.Samples]]
               ELSE [i |-> w.i + 1, rmin |-> rmin, res |-> Panic]

\* k iterations of the loop, split in halves to keep the evaluation shallow
RECURSIVE QuantileSteps(_, _, _, _)
QuantileSteps(data, w, rPlusEps, k) ==
  IF k = 0 THEN w
  ELSE IF k = 1 THEN QuantileStep(data, w, rPlusEps)
  ELSE LET w1 == QuantileSteps(data, w, rPlusEps, k \div 2)
       IN IF w1.i > 0 THEN QuantileSteps(data, w1, rPlusEps, k - (k \div 2)) ELSE w1

\* the walk from head.next[0]; panic("not reached") when it returns nothing
QuantileFrom(data, rPlusEps) ==
  QuantileSteps(data, [i |-> 1, rmin |-> 0, res |-> Panic], rPlusEps, Len(data)).res

Quantile(s, q) == QuantileFrom(s.data, QuantileRank(q, s.N) + EpsN(s.N))

\* ---- Summary.BySlices ----------------------------------------------------
Truncate(smp, maxSamples) ==
  IF Len(smp) > maxSamples THEN SubSeq(smp, 1, maxSamples) ELSE smp

BySlices(s, maxSamples) ==
  [k \in 1..Len(s.data) |->
     LET last == IF k = 1 THEN HeadValue ELSE s.data[k - 1]
         cur == s.data[k]
     IN [Start |-> last.V, End |-> cur.V,
         Weight |-> cur.G + cur.Delta - 1,
         Samples |-> Truncate(cur.Samples, maxSamples)]]

\* ---- Summary.Merge -------------------------------------------------------
\* the Entries the loop of Merge / MarshalJSON / GobEncode visits: it starts
\* at s.data.head, so the sentinel's Entry comes first
WalkFromHead(data) == <<HeadValue>> \o data

\* Merge without the early return for s2.N == 0
SummaryMerge_NoEarlyReturn(s, s2) ==
  compress([data |-> InsertAll(s.data, WalkFromHead(s2.data)),
            N |-> s.N + s2.N])

\* Merge that forgets s.N += s2.N
SummaryMerge_KeepsN(s, s2) ==
  IF s2.N = 0 THEN s
  ELSE compress([data |-> InsertAll(s.data, WalkFromHead(s2.data)), N |-> s.N])

\* Merge up to its last statement: N added, every Entry of the walk inserted
MergeInserted(s, s2) ==
  [data |-> InsertAll(s.data, WalkFromHead(s2.data)), N |-> s.N + s2.N]

SummaryMerge(s, s2) ==
  IF s2.N = 0 THEN s ELSE compress(MergeInserted(s, s2))

\* ---- serializer ----------------------------------------------------------
Forms == {"json", "gob"}

\* MarshalJSON / GobEncode: EncodedData and N
Encoded(s, form) == [form |-> form, data |-> WalkFromHead(s.data), n |-> s.N]

\* UnmarshalJSON / GobDecode: a new skiplist filled with the EncodedData
Decoded(w) == [data |-> InsertAll(NewSkiplist, w.data), N |-> w.n]

\* ---- Grapher (package main, grapher.go) -----------------------------------
\* make(map[string][]uint64): a map is a function from the keys it holds
EmptyMap == [k \in {} |-> <<>>]

\* m[k] = v
MapPut(m, k, v) == [x \in DOMAIN m \cup {k} |-> IF x = k THEN v ELSE m[x]]

\* m[k], the nil slice for a key the map does not hold
MapGet(m, k) == IF k \in DOMAIN m THEN m[k] ELSE <<>>

\* Edge.Key of the Edge AddSpan builds: the hosts joined with "|"; sections
\* and type are the same for all spans here
Key(s) == <<s.in, s.out>>

\* sync.Mutex: the caller holding it, Unlocked when none does
Unlocked == 0

\* a caller outside AddSpan and FlushOnChannel
Idle == [at |-> "idle"]

\* g.mu.Lock() that lets every caller through
Lock_NoExclusion(c) == mu' = c

\* g.mu.Lock() by caller c: blocks until the mutex is free
Lock(c) == mu = Unlocked /\ mu' = c

\* g.mu.Unlock()
Unlock(c) == mu' = Unlocked

\* ---- observations (history) ----------------------------------------------
AllValues == Values \cup BulkValues

NoObs == [v \in AllValues |-> 0]

ObsAdd(o, v, k) == [o EXCEPT ![v] = @ + k]

ObsJoin(o1, o2) == [v \in AllValues |-> o1[v] + o2[v]]

RECURSIVE SetSum(_, _)
SetSum(S, f) ==
  IF S = {} THEN 0
  ELSE LET x == CHOOSE y \in S : TRUE IN f[x] + SetSum(S \ {x}, f)

ObsTotal(o) == SetSum(AllValues, o)

\* ---- Insert calls (history) ----------------------------------------------
\* calls: the number of Insert calls made on the summary; ranAt: the ordinals
\* of the calls that ran compress; ranN / idleN: the values N had after the
\* calls that ran / did not run compress
NoCalls == [calls |-> 0, ranAt |-> {}, ranN |-> {}, idleN |-> {}]

\* k more Insert calls on a summary whose N is n
CallsAdd(c, n, k) ==
  [calls |-> c.calls + k,
   ranAt |-> c.ranAt \cup {c.calls + j : j \in {x \in 1..k : InsertCompresses(n + x)}},
   ranN |-> c.ranN \cup {n + j : j \in {x \in 1..k : InsertCompresses(n + x)}},
   idleN |-> c.idleN \cup {n + j : j \in {x \in 1..k : ~InsertCompresses(n + x)}}]

\* ---- state machine -------------------------------------------------------
Init ==
  /\ sum = [i \in Sums |-> NewSummary]
  /\ obs = [i \in Sums |-> NoObs]
  /\ ids = [i \in Sums |-> {}]
  /\ via = [i \in Sums |-> {}]
  /\ op = [kind |-> "NewSummary"]
  /\ cad = [i \in Sums |-> NoCalls]
  /\ merging = [m1 |-> NewSummary, m2 |-> NewSummary, o |-> NewSummary,
                samples |-> <<>>, merged |-> FALSE]
  /\ height = 0
  /\ heap = NewHeap
  /\ gone = {}
  /\ lastStoreOp = [kind |-> "NewSkiplist"]
  /\ graph = 1
  /\ maps = <<EmptyMap>>
  /\ mu = Unlocked
  /\ pc = [c \in Callers |-> Idle]
  /\ flushers = <<>>
  /\ spans = 0
  /\ flushes = 0
  /\ payloads = 0
  /\ inPayload = <<>>
  /\ outPayload = <<>>
  /\ accepted = {}
  /\ swapped = <<>>
  /\ steps = 0

\* s.Insert(v, t)
Insert(i, v, t) ==
  /\ sum[i].N < MaxN
  /\ sum' = [sum EXCEPT ![i] = SummaryInsert(sum[i], v, t)]
  /\ obs' = [obs EXCEPT ![i] = ObsAdd(obs[i], v, 1)]
  /\ ids' = [ids EXCEPT ![i] = @ \cup {<<v, t>>}]
  /\ via' = [via EXCEPT ![i] = @ \cup {"Insert"}]
  /\ op' = [kind |-> "Insert", dst |-> i, k |-> 1,
            compressed |-> InsertCompresses(sum[i].N + 1)]
  /\ cad' = [cad EXCEPT ![i] = CallsAdd(@, sum[i].N, 1)]
  /\ UNCHANGED besidesSummaries
  /\ UNCHANGED steps

\* the effect of s.Merge(s2) on the summaries and on the history
MergeInto(i, j) ==
  /\ sum' = [sum EXCEPT ![i] = SummaryMerge(sum[i], sum[j])]
  /\ obs' = [obs EXCEPT ![i] = IF sum[j].N = 0 THEN @ ELSE ObsJoin(@, obs[j])]
  /\ ids' = [ids EXCEPT ![i] = IF sum[j].N = 0 THEN @ ELSE @ \cup ids[j]]
  /\ via' = [via EXCEPT ![i] = IF sum[j].N = 0 THEN @ ELSE @ \cup via[j] \cup {"Merge"}]
  /\ op' = [kind |-> "Merge", dst |-> i, src |-> j,
            compressed |-> sum[j].N # 0]
  /\ UNCHANGED cad
  /\ UNCHANGED besidesSummaries

\* s.Merge(s2)
Merge(i, j) ==
  /\ i # j
  /\ sum[i].N + sum[j].N <= MaxN
  /\ Len(sum[i].data) + Len(sum[j].data) + 1 <= MaxLen
  /\ MergeInto(i, j)
  /\ UNCHANGED steps

\* b := encode(s) then decode(b) into summary j: json.Marshal / json.Unmarshal
\* for form "json", s.GobEncode / ss.GobDecode for form "gob"
RoundTrip(i, j, form) ==
  /\ Len(sum[i].data) + 1 <= MaxLen
  /\ sum' = [sum EXCEPT ![j] = Decoded(Encoded(sum[i], form))]
  /\ obs' = [obs EXCEPT ![j] = obs[i]]
  /\ ids' = [ids EXCEPT ![j] = ids[i]]
  /\ via' = [via EXCEPT ![j] = via[i] \cup {"RoundTrip"}]
  /\ op' = [kind |-> "RoundTrip", dst |-> j, src |-> i, form |-> form]
  /\ cad' = [cad EXCEPT ![j] = NoCalls]
  /\ UNCHANGED besidesSummaries
  /\ UNCHANGED steps

Next ==
  \/ \E i \in Sums, v \in Values, t \in Sids : Insert(i, v, t)
  \/ \E i \in Sums, j \in Sums : Merge(i, j)
  \/ \E i \in Sums, j \in Sums, form \in Forms : RoundTrip(i, j, form)

Spec == Init /\ [][Next]_vars

\* ---- long streams --------------------------------------------------------
\* for ... { s.Insert(v, uint64(v)) }, k iterations with the same value
RECURSIVE InsertRun(_, _, _, _)
InsertRun(s, v, t, k) ==
  IF k = 0 THEN s
  ELSE IF k = 1 THEN SummaryInsert(s, v, t)
  ELSE LET s1 == InsertRun(s, v, t, k \div 2)
       IN IF s1.N > s.N THEN InsertRun(s1, v, t, k - (k \div 2)) ELSE s1

\* summary 1 is the long stream, summary 2 the short one merged into it
RunLens(i) == IF i = 1 THEN {1, RunLen} ELSE {1}

InsertMany(i, v, k) ==
  /\ steps < MaxSteps
  /\ steps' = steps + 1
  /\ sum' = [sum EXCEPT ![i] = InsertRun(sum[i], v, v, k)]
  /\ obs' = [obs EXCEPT ![i] = ObsAdd(obs[i], v, k)]
  /\ ids' = [ids EXCEPT ![i] = @ \cup {<<v, v>>}]
  /\ via' = [via EXCEPT ![i] = @ \cup {"Insert"}]
  /\ op' = [kind |-> "Insert", dst |-> i, k |-> k,
            compressed |-> InsertCompresses(sum[i].N + k)]
  /\ cad' = [cad EXCEPT ![i] = CallsAdd(@, sum[i].N, k)]
  /\ UNCHANGED besidesSummaries

\* s.Merge(s2) between two long streams
MergeStreams(i, j) ==
  /\ i # j
  /\ steps < MaxSteps
  /\ steps' = steps + 1
  /\ MergeInto(i, j)

NextBulk ==
  \/ \E i \in Sums, v \in BulkValues : \E k \in RunLens(i) : InsertMany(i, v, k)
  \/ \E i \in Sums, j \in Sums : MergeStreams(i, j)

SpecBulk == Init /\ [][NextBulk]_vars

\* ---- TestQuantilesMerging -------------------------------------------------
\* one iteration of "for _, s := range samples": the sample goes twice into
\* o and once into m1 and into m2; samples[i] = int64(i), here from a start
\* in Starts on, the sample ID is uint64(s)
SampleNext(s) ==
  /\ ~merging.merged
  /\ Len(merging.samples) < MaxCount
  /\ IF merging.samples = <<>> THEN s \in Starts
     ELSE s = merging.samples[Len(merging.samples)] + 1
  /\ merging' = [merging EXCEPT
        !.o = SummaryInsert(SummaryInsert(@, s, s), s, s),
        !.m1 = SummaryInsert(@, s, s),
        !.m2 = SummaryInsert(@, s, s),
        !.samples = Append(@, s)]
  /\ UNCHANGED besidesMerging

\* m1.Merge(m2)
MergeM1M2 ==
  /\ ~merging.merged
  /\ merging' = [merging EXCEPT !.m1 = SummaryMerge(@, merging.m2),
                                !.merged = TRUE]
  /\ UNCHANGED besidesMerging

NextMerging ==
  \/ \E s \in 0..(MaxCount + 1) : SampleNext(s)
  \/ MergeM1M2

SpecMerging == Init /\ [][NextMerging]_vars

\* ---- the store on its own ---------------------------------------------------
\* s.Insert(e) for an Entry with value v and a drawn level
StoreInsert(v, drawn) ==
  LET node == Cardinality(DOMAIN heap)
  IN /\ node <= MaxNodes
     /\ heap' = LinkedInsert(heap, height, node, v, drawn)
     /\ height' = GrownHeight(height, drawn)
     /\ lastStoreOp' = [kind |-> "Insert", node |-> node]
     /\ UNCHANGED gone
     /\ UNCHANGED besidesSkiplist

\* s.Remove(node) for a node that is in the store
StoreRemove(node) ==
  /\ node \in DOMAIN heap \ ({HeadNode} \cup gone)
  /\ heap' = LinkedRemove(heap, node)
  /\ gone' = gone \cup {node}
  /\ lastStoreOp' = [kind |-> "Remove", node |-> node]
  /\ UNCHANGED height
  /\ UNCHANGED besidesSkiplist

NextSkiplist ==
  \/ \E v \in SkipValues, drawn \in 0..MaxDrawn : StoreInsert(v, drawn)
  \/ \E node \in 1..MaxNodes : StoreRemove(node)

SpecSkiplist == Init /\ [][NextSkiplist]_vars

\* ---- Grapher, caller by caller ---------------------------------------------
\* caller c enters AddSpan(s): a span without in.host and out.host returns
\* at once, any other goes on to g.mu.Lock()
AddSpan(c, in, out) ==
  /\ pc[c] = Idle
  /\ spans < MaxSpans
  /\ spans' = spans + 1
  /\ pc' = [pc EXCEPT ![c] =
        IF in = "" /\ out = "" THEN Idle
        ELSE [at |-> "add_lock", s |-> [SpanID |-> spans + 1, in |-> in, out |-> out]]]
  /\ UNCHANGED <<graph, maps, mu, flushers, flushes, payloads, inPayload,
                 outPayload,
                 accepted, swapped>>
  /\ UNCHANGED besidesGrapher

\* g.mu.Lock() in AddSpan
AddSpanLock(c) ==
  /\ pc[c].at = "add_lock"
  /\ Lock(c)
  /\ pc' = [pc EXCEPT ![c].at = "add_lookup"]
  /\ UNCHANGED <<graph, maps, flushers, spans, flushes, payloads, inPayload,
                 outPayload,
                 accepted, swapped>>
  /\ UNCHANGED besidesGrapher

\* if _, ok := g.graph[key]; ok
AddSpanLookup(c) ==
  /\ pc[c].at = "add_lookup"
  /\ pc' = [pc EXCEPT ![c].at =
        IF Key(pc[c].s) \in DOMAIN maps[graph] THEN "add_read" ELSE "add_new"]
  /\ UNCHANGED <<graph, maps, mu, flushers, spans, flushes, payloads,
                 inPayload,
                 outPayload, accepted, swapped>>
  /\ UNCHANGED besidesGrapher

\* the right-hand side append(g.graph[key], s.SpanID)
AddSpanRead(c) ==
  /\ pc[c].at = "add_read"
  /\ pc' = [pc EXCEPT ![c] =
        [at |-> "add_store", s |-> pc[c].s,
         slice |-> Append(MapGet(maps[graph], Key(pc[c].s)), pc[c].s.SpanID)]]
  /\ UNCHANGED <<graph, maps, mu, flushers, spans, flushes, payloads,
                 inPayload,
                 outPayload, accepted, swapped>>
  /\ UNCHANGED besidesGrapher

\* the assignment g.graph[key] = append(...)
AddSpanStore(c) ==
  /\ pc[c].at = "add_store"
  /\ maps' = [maps EXCEPT ![graph] = MapPut(@, Key(pc[c].s), pc[c].slice)]
  /\ pc' = [pc EXCEPT ![c] = [at |-> "add_unlock", s |-> pc[c].s]]
  /\ UNCHANGED <<graph, mu, flushers, spans, flushes, payloads, inPayload,
                 outPayload,
                 accepted, swapped>>
  /\ UNCHANGED besidesGrapher

\* g.graph[key] = []uint64{s.SpanID}
AddSpanNew(c) ==
  /\ pc[c].at = "add_new"
  /\ maps' = [maps EXCEPT ![graph] = MapPut(@, Key(pc[c].s), <<pc[c].s.SpanID>>)]
  /\ pc' = [pc EXCEPT ![c].at = "add_unlock"]
  /\ UNCHANGED <<graph, mu, flushers, spans, flushes, payloads, inPayload,
                 outPayload,
                 accepted, swapped>>
  /\ UNCHANGED besidesGrapher

\* the deferred g.mu.Unlock(): AddSpan returns, the span ID is accepted
AddSpanUnlock(c) ==
  /\ pc[c].at = "add_unlock"
  /\ Unlock(c)
  /\ accepted' = accepted \cup {pc[c].s.SpanID}
  /\ pc' = [pc EXCEPT ![c] = Idle]
  /\ UNCHANGED <<graph, maps, flushers, spans, flushes, payloads, inPayload,
                 outPayload,
                 swapped>>
  /\ UNCHANGED besidesGrapher

\* caller c enters FlushOnChannel
FlushOnChannel(c) ==
  /\ pc[c] = Idle
  /\ flushes < MaxFlushes
  /\ flushes' = flushes + 1
  /\ pc' = [pc EXCEPT ![c] = [at |-> "flush_lock"]]
  /\ UNCHANGED <<graph, maps, mu, flushers, spans, payloads, inPayload,
                 outPayload,
                 accepted, swapped>>
  /\ UNCHANGED besidesGrapher

\* g.mu.Lock() in FlushOnChannel
FlushLock(c) ==
  /\ pc[c].at = "flush_lock"
  /\ Lock(c)
  /\ pc' = [pc EXCEPT ![c].at = "flush_read"]
  /\ UNCHANGED <<graph, maps, flushers, spans, flushes, payloads, inPayload,
                 outPayload,
                 accepted, swapped>>
  /\ UNCHANGED besidesGrapher

\* graph := g.graph
FlushRead(c) ==
  /\ pc[c].at = "flush_read"
  /\ pc' = [pc EXCEPT ![c] = [at |-> "flush_make", graph |-> graph]]
  /\ UNCHANGED <<graph, maps, mu, flushers, spans, flushes, payloads,
                 inPayload,
                 outPayload, accepted, swapped>>
  /\ UNCHANGED besidesGrapher

\* g.graph = make(map[string][]uint64): the map read before is swapped out
FlushMake(c) ==
  /\ pc[c].at = "flush_make"
  /\ maps' = Append(maps, EmptyMap)
  /\ graph' = Len(maps) + 1
  /\ swapped' = Append(swapped, pc[c].graph)
  /\ pc' = [pc EXCEPT ![c].at = "flush_unlock"]
  /\ UNCHANGED <<mu, flushers, spans, flushes, payloads, inPayload,
                 outPayload, accepted>>
  /\ UNCHANGED besidesGrapher

\* g.mu.Unlock() in FlushOnChannel
FlushUnlock(c) ==
  /\ pc[c].at = "flush_unlock"
  /\ Unlock(c)
  /\ pc' = [pc EXCEPT ![c].at = "flush_go"]
  /\ UNCHANGED <<graph, maps, flushers, spans, flushes, payloads, inPayload,
                 outPayload,
                 accepted, swapped>>
  /\ UNCHANGED besidesGrapher

\* FlushOnChannel without the go statement: the caller itself waits for the
\* payload, attaches the graph and sends it before it returns
FlushGo_Inline(c) ==
  /\ pc[c].at = "flush_go"
  /\ inPayload # <<>>
  /\ inPayload' = Tail(inPayload)
  /\ payloads' = payloads + 1
  /\ outPayload' = Append(outPayload,
        [payload |-> inPayload[1], Graph |-> pc[c].graph])
  /\ pc' = [pc EXCEPT ![c] = Idle]
  /\ UNCHANGED <<graph, maps, mu, flushers, spans, flushes, accepted, swapped>>
  /\ UNCHANGED besidesGrapher

\* go func() { ... }(): the goroutine starts with the local graph, and
\* FlushOnChannel returns
FlushGo(c) ==
  /\ pc[c].at = "flush_go"
  /\ flushers' = Append(flushers, [at |-> "recv", graph |-> pc[c].graph])
  /\ pc' = [pc EXCEPT ![c] = Idle]
  /\ UNCHANGED <<graph, maps, mu, spans, flushes, payloads, inPayload,
                 outPayload,
                 accepted, swapped>>
  /\ UNCHANGED besidesGrapher

\* the owner of the inPayload channel handed to NewGrapher sends one more
\* payload on it; inPayload holds the payloads sent and not yet received,
\* oldest first
OfferPayload ==
  /\ payloads + Len(inPayload) < MaxPayloads
  /\ inPayload' = Append(inPayload, payloads + Len(inPayload) + 1)
  /\ UNCHANGED <<graph, maps, mu, pc, flushers, spans, flushes, payloads,
                 outPayload, accepted, swapped>>
  /\ UNCHANGED besidesGrapher

\* ap := <-g.inPayload in goroutine k, taking the oldest payload on offer;
\* ap.Graph = graph
FlusherReceive(k) ==
  /\ k \in 1..Len(flushers)
  /\ flushers[k].at = "recv"
  /\ inPayload # <<>>
  /\ inPayload' = Tail(inPayload)
  /\ payloads' = payloads + 1
  /\ flushers' = [flushers EXCEPT ![k] =
        [at |-> "send", graph |-> @.graph,
         ap |-> [payload |-> inPayload[1], Graph |-> @.graph]]]
  /\ UNCHANGED <<graph, maps, mu, pc, spans, flushes, outPayload, accepted,
                 swapped>>
  /\ UNCHANGED besidesGrapher

\* g.outPayload <- ap in goroutine k, the reader of the channel taking it
FlusherSend(k) ==
  /\ k \in 1..Len(flushers)
  /\ flushers[k].at = "send"
  /\ outPayload' = Append(outPayload, flushers[k].ap)
  /\ flushers' = [flushers EXCEPT ![k] = [at |-> "done", graph |-> @.graph]]
  /\ UNCHANGED <<graph, maps, mu, pc, spans, flushes, payloads, inPayload,
                 accepted,
                 swapped>>
  /\ UNCHANGED besidesGrapher

NextGrapher ==
  \/ \E c \in Callers, h \in SpanHosts : AddSpan(c, h[1], h[2])
  \/ \E c \in Callers : AddSpanLock(c)
  \/ \E c \in Callers : AddSpanLookup(c)
  \/ \E c \in Callers : AddSpanRead(c)
  \/ \E c \in Callers : AddSpanStore(c)
  \/ \E c \in Callers : AddSpanNew(c)
  \/ \E c \in Callers : AddSpanUnlock(c)
  \/ \E c \in Callers : FlushOnChannel(c)
  \/ \E c \in Callers : FlushLock(c)
  \/ \E c \in Callers : FlushRead(c)
  \/ \E c \in Callers : FlushMake(c)
  \/ \E c \in Callers : FlushUnlock(c)
  \/ \E c \in Callers : FlushGo(c)
  \/ OfferPayload
  \/ \E k \in 1..MaxFlushes : FlusherReceive(k)
  \/ \E k \in 1..MaxFlushes : FlusherSend(k)

SpecGrapher == Init /\ [][NextGrapher]_vars

\* ---- properties ----------------------------------------------------------
InsertOnly(i) == via[i] \subseteq {"Insert"}

InsertMergeOnly(i) == via[i] \subseteq {"Insert", "Merge"}

\* number of observations of summary i smaller than v / not greater than v:
\* in the sorted stream the value v fills the positions ObsLess+1 .. ObsLeq
ObsLess(i, v) == SetSum({w \in AllValues : w < v}, obs[i])

ObsLeq(i, v) == SetSum({w \in AllValues : w <= v}, obs[i])

ObsValues(i) == {w \in AllValues : obs[i][w] > 0}

ObsMin(i) == CHOOSE w \in ObsValues(i) : \A x \in ObsValues(i) : w <= x

ObsMax(i) == CHOOSE w \in ObsValues(i) : \A x \in ObsValues(i) : w >= x

Abs(x) == IF x < 0 THEN -x ELSE x

\* |rho - q*N| <= epsilon*N + 1/2 for a position rho of the value v, counted
\* from 0 or from 1 (rho in ObsLess..ObsLeq); the 1/2 allows for the rounding
\* of q*N to a rank.  Both sides are multiplied by 2 * q[2] * EpsilonDen.
RankWithinEpsilon(i, q, v) ==
  \E rho \in ObsLess(i, v)..ObsLeq(i, v) :
     2 * EpsilonDen * Abs(rho * q[2] - q[1] * sum[i].N)
        <= 2 * q[2] * sum[i].N + EpsilonDen * q[2]

\* C1: after any sequence of Insert calls on a new summary, for every q the
\* true rank of the value Quantile(q) returns is within epsilon*N of q*N.
C1_EpsilonBound ==
  \A i \in Sums, q \in Qs :
     (InsertOnly(i) /\ sum[i].N > 0) =>
        /\ ~Quantile(sum[i], q).panic
        /\ RankWithinEpsilon(i, q, Quantile(sum[i], q).V)

\* C2: after any non-empty sequence of Insert calls on a new summary,
\* Quantile(0) is the minimum inserted value and Quantile(1) the maximum.
C2_BoundaryExact ==
  \A i \in Sums :
     (InsertOnly(i) /\ sum[i].N > 0) =>
        /\ Quantile(sum[i], <<0, 1>>) =
             [panic |-> FALSE, V |-> ObsMin(i),
              Samples |-> Quantile(sum[i], <<0, 1>>).Samples]
        /\ Quantile(sum[i], <<1, 1>>) =
             [panic |-> FALSE, V |-> ObsMax(i),
              Samples |-> Quantile(sum[i], <<1, 1>>).Samples]

\* the value (or the panic) a Quantile call yields, without the samples
QuantileValue(s, q) ==
  IF Quantile(s, q).panic THEN "panic" ELSE Quantile(s, q).V

\* C3: for a summary s with N > 0 built by Insert calls and either wire
\* form, d = decode(encode(s)) has d.N = s.N and d.Quantile(q) returns the
\* same value as s.Quantile(q) for every q.
C3_RoundTripFidelity ==
  [][(op'.kind = "RoundTrip" /\ InsertOnly(op'.src) /\ sum[op'.src].N > 0) =>
       /\ sum'[op'.dst].N = sum[op'.src].N
       /\ \A q \in Qs :
            QuantileValue(sum'[op'.dst], q) = QuantileValue(sum[op'.src], q)]_vars

\* C4: after any sequence of Insert and Merge calls, every sample ID that
\* Quantile(q) returns with the value v was passed to an Insert call whose
\* value was v.
C4_SampleProvenance ==
  \A i \in Sums, q \in Qs :
     (InsertMergeOnly(i) /\ sum[i].N > 0 /\ ~Quantile(sum[i], q).panic) =>
        \A k \in 1..Len(Quantile(sum[i], q).Samples) :
           <<Quantile(sum[i], q).V, Quantile(sum[i], q).Samples[k]>> \in ids[i]

\* C5: k Insert calls on a new summary leave N = k, a Merge adds other.N to
\* the destination's N, whatever Compress removed: N is the number of
\* observations inserted into or merged into the summary, an Insert step
\* adds 1 per call and a Merge step adds the source's N.
C5_CountAccounting ==
  /\ [](\A i \in Sums : sum[i].N = ObsTotal(obs[i]))
  /\ [][/\ op'.kind = "Insert" =>
             sum'[op'.dst].N = sum[op'.dst].N + op'.k
        /\ op'.kind = "Merge" =>
             sum'[op'.dst].N = sum[op'.dst].N + sum[op'.src].N]_vars

\* a Merge of a non-empty source after which the destination holds fewer
\* entries than observations, the automatic Compress having run before
C5_Witness ==
  /\ op.kind = "Merge"
  /\ sum[op.src].N > 0
  /\ sum[op.dst].N > RunLen
  /\ Len(sum[op.dst].data) < sum[op.dst].N - sum[op.src].N

\* C6: Quantile(q) of a summary with N = 0 panics, however the summary was
\* obtained.
C6_EmptyQuantilePanics ==
  \A i \in Sums, q \in Qs : sum[i].N = 0 => Quantile(sum[i], q).panic

EntryValues(data) == {data[k].V : k \in 1..Len(data)}

\* C7: a Merge of a non-empty source inserts the source's Entries and
\* nothing for the sentinel: every Value the destination holds after the
\* Merge was held by the destination or by the source before it.
C7_MergeInsertsEntriesOnly ==
  [][(op'.kind = "Merge" /\ sum[op'.src].N > 0) =>
       EntryValues(sum'[op'.dst].data) \subseteq
          EntryValues(sum[op'.dst].data) \cup EntryValues(sum[op'.src].data)]_vars

\* C8: the encoded snapshot is the sequence of the store's Entries and
\* decode(encode(s)) holds the same Entries in the same order.
C8_SnapshotExact ==
  [][op'.kind = "RoundTrip" =>
       /\ Encoded(sum[op'.src], op'.form).data = sum[op'.src].data
       /\ sum'[op'.dst].data = sum[op'.src].data]_vars

\* C9: in every state reached by Insert and Merge calls on a non-empty
\* summary the first and the last entry of the store have Delta = 0.
C9_BoundaryDeltaZero ==
  \A i \in Sums :
     (InsertMergeOnly(i) /\ sum[i].N > 0 /\ Len(sum[i].data) > 0) =>
        /\ sum[i].data[1].Delta = 0
        /\ sum[i].data[Len(sum[i].data)].Delta = 0

RECURSIVE SumWeightRange(_, _, _)
SumWeightRange(slices, lo, hi) ==
  IF lo > hi THEN 0
  ELSE IF lo = hi THEN slices[lo].Weight
  ELSE SumWeightRange(slices, lo, (lo + hi) \div 2)
         + SumWeightRange(slices, (lo + hi) \div 2 + 1, hi)

SumWeight(slices) == SumWeightRange(slices, 1, Len(slices))

\* maxSamples of s.BySlices(10)
MaxSamples == 10

\* C10: for a summary built by Insert calls, N >= 1, the Weights of the
\* buckets BySlices returns sum up to at least N.
C10_WeightCoversN ==
  \A i \in Sums :
     (InsertOnly(i) /\ sum[i].N >= 1) =>
        SumWeight(BySlices(sum[i], MaxSamples)) >= sum[i].N

\* C11: BySlices returns one bucket per consecutive pair (prev, cur) of
\* store entries, in ascending order: k entries give k-1 buckets, bucket j
\* has Start = entry j's Value, End = entry j+1's Value, Weight =
\* G + Delta - 1 of entry j+1 and its first maxSamples Samples; so every
\* bucket has Start <= End, Start and End are Values the store holds, and
\* each bucket starts where the one before it ends.
C11_SlicesPairEntries ==
  \A i \in Sums :
     LET slices == BySlices(sum[i], MaxSamples)
         data == sum[i].data
     IN /\ Len(slices) = (IF Len(data) = 0 THEN 0 ELSE Len(data) - 1)
        /\ \A k \in 1..Len(slices) :
              /\ slices[k].Start <= slices[k].End
              /\ slices[k].Start \in EntryValues(data)
              /\ slices[k].End \in EntryValues(data)
              /\ k < Len(data) =>
                   /\ slices[k].Start = data[k].V
                   /\ slices[k].End = data[k + 1].V
                   /\ slices[k].Weight = data[k + 1].G + data[k + 1].Delta - 1
                   /\ slices[k].Samples = Truncate(data[k + 1].Samples, MaxSamples)
        /\ \A k \in 1..(Len(slices) - 1) : slices[k + 1].Start = slices[k].End

\* C14: Merge(other) with other.N = 0 returns at once: the destination's N
\* and its whole entry sequence are unchanged, nothing is inserted and no
\* Compress pass folds the destination's entries.
C14_MergeEmptyNoOp ==
  [][(op'.kind = "Merge" /\ sum[op'.src].N = 0) =>
       sum'[op'.dst] = sum[op'.dst]]_vars

\* a Merge of a source with N = 0 whose store is not empty (it was decoded
\* from an empty summary) into a destination holding two entries of equal
\* Value, which a Compress pass would have folded
C14_Witness ==
  /\ op.kind = "Merge"
  /\ sum[op.src].N = 0
  /\ Len(sum[op.src].data) > 0
  /\ Len(sum[op.dst].data) = 2
  /\ sum[op.dst].data[1].V = sum[op.dst].data[2].V

\* number of entries of the store with Value v
CountValue(data, v) == Cardinality({k \in 1..Len(data) : data[k].V = v})

\* after is before with some entries removed: not more entries, the same N,
\* and every Value as often as before at most (both stores are sorted, so
\* the Values of after are a subsequence of those of before)
NonExpansive(before, after) ==
  /\ Len(after.data) <= Len(before.data)
  /\ after.N = before.N
  /\ \A v \in EntryValues(after.data) :
        CountValue(after.data, v) <= CountValue(before.data, v)

\* C15: a Compress pass on a reachable summary, or on the summary a Merge
\* of two reachable summaries hands to it, ends with no more entries than
\* it started with, inserts no entry and changes neither N nor the Value of
\* an entry it keeps.
C15_CompressNonExpansive ==
  \A i \in Sums :
     /\ NonExpansive(sum[i], compress(sum[i]))
     /\ \A j \in Sums \ {i} :
           NonExpansive(MergeInserted(sum[i], sum[j]),
                        compress(MergeInserted(sum[i], sum[j])))

\* a summary of at least 150 observations of which a Compress pass removes
\* entries
C15_Witness ==
  \E i \in Sums :
     /\ sum[i].N >= 3 * CompressEvery
     /\ Len(compress(sum[i]).data) < Len(sum[i].data)

RECURSIVE SumGRange(_, _, _)
SumGRange(data, lo, hi) ==
  IF lo > hi THEN 0
  ELSE IF lo = hi THEN data[lo].G
  ELSE SumGRange(data, lo, (lo + hi) \div 2)
         + SumGRange(data, (lo + hi) \div 2 + 1, hi)

\* the sum of G over all entries of the store
SumG(data) == SumGRange(data, 1, Len(data))

\* C16: in every state reached by Insert and Merge calls the sum of G over
\* all entries equals N: a Compress pass drops no part of its running
\* counter 'missing'.
C16_RankMassConserved ==
  \A i \in Sums : InsertMergeOnly(i) => SumG(sum[i].data) = sum[i].N

\* summary i is in the state the Compress pass of the last call left it in:
\* the call was a Merge of a non-empty source, or an Insert that made N a
\* multiple of CompressEvery
AfterCompress(i) ==
  /\ op.kind \in {"Insert", "Merge"}
  /\ op.dst = i
  /\ op.compressed

NoDuplicateValues(data) ==
  \A k \in 1..Len(data), l \in 1..Len(data) :
     k # l => data[k].V # data[l].V

\* C17: immediately after a Compress pass, the automatic one of Insert or
\* the one Merge forces, no two entries of the store have the same Value.
C17_CompressFoldsDuplicates ==
  \A i \in Sums : AfterCompress(i) => NoDuplicateValues(sum[i].data)

\* the automatic Compress pass has just folded 150 observations of at most
\* three Values, and a forced one has folded a merged store with duplicates
C17_Witness ==
  /\ op.kind = "Insert"
  /\ AfterCompress(op.dst)
  /\ sum[op.dst].N = 3 * CompressEvery
  /\ "Merge" \in via[op.dst]

\* C18 as stated: the Insert calls that ran the automatic Compress are the
\* 50th, 100th, 150th, ... Insert call on the summary and no other,
\* whatever Merge calls came in between.
C18_CadenceByCalls ==
  \A i \in Sums :
     cad[i].ranAt = {c \in 1..cad[i].calls : c % 50 = 0}

\* C18, amended: an Insert call runs the automatic Compress exactly when N
\* after the call, which counts the Insert calls on the summary and the N
\* of every summary merged into it, is a multiple of 50.
C18_CadenceByN ==
  \A i \in Sums :
     /\ \A n \in cad[i].ranN : n % 50 = 0
     /\ \A n \in cad[i].idleN : n % 50 # 0

\* after a Merge, an Insert call that is not the 50th, 100th, ... on the
\* summary has run the automatic Compress
C18_Witness ==
  \E i \in Sums :
     /\ "Merge" \in via[i]
     /\ \E c \in cad[i].ranAt : c % 50 # 0

\* q = float64(i) / 10.0 for i = 0..10; for an even N, as N is here,
\* int(q*float64(N) + 0.5) equals the exact floor(i*N/10 + 1/2) QuantileRank
\* computes
Tenths == {<<i, 10>> : i \in 0..10}

\* the doubled multiset holds every sample twice: the number of its elements
\* smaller than v / not greater than v
DoubledLess(v) ==
  2 * Cardinality({k \in 1..Len(merging.samples) : merging.samples[k] < v})

DoubledLeq(v) ==
  2 * Cardinality({k \in 1..Len(merging.samples) : merging.samples[k] <= v})

\* some rank of v and some rank of w in the doubled multiset are within
\* epsilon*N of each other (both sides multiplied by EpsilonDen)
RanksWithinEpsilon(v, w, n) ==
  \E r1 \in DoubledLess(v)..DoubledLeq(v), r2 \in DoubledLess(w)..DoubledLeq(w) :
     EpsilonDen * Abs(r1 - r2) <= n

\* C13: m1 and m2 each hold the same increasing integers once, o holds each
\* twice; after m1.Merge(m2), for every q in {0, 0.1, ..., 1} the value
\* m1.Quantile(q) returns has a rank in the doubled multiset within
\* epsilon*N of the rank of the value o.Quantile(q) returns.
C13_MergeCloseToOriginal ==
  (merging.merged /\ merging.samples # <<>>) =>
     /\ merging.m1.N = merging.o.N
     /\ \A q \in Tenths :
           /\ ~Quantile(merging.m1, q).panic
           /\ ~Quantile(merging.o, q).panic
           /\ RanksWithinEpsilon(Quantile(merging.m1, q).V,
                                 Quantile(merging.o, q).V, merging.o.N)

\* the nodes met from x on along the level-i links, x left out, fuel of them
\* at most
RECURSIVE Chain(_, _, _, _)
Chain(h, x, i, fuel) ==
  LET nx == IF i < Len(h[x].next) THEN h[x].next[i + 1] ELSE Nil
  IN IF nx = Nil \/ fuel = 0 THEN <<>>
     ELSE <<nx>> \o Chain(h, nx, i, fuel - 1)

\* for elt := s.head.next[i]; elt != nil; elt = elt.next[i]
LevelChain(i) == Chain(heap, HeadNode, i, Cardinality(DOMAIN heap))

\* the nodes inserted and not removed
Stored == DOMAIN heap \ ({HeadNode} \cup gone)

\* C12: after any Inserts and Removes on the store, the traversal along the
\* base level from the sentinel visits every stored entry once, in
\* non-decreasing Value order, entries of equal Value in the order of their
\* insertion (node addresses count the Insert calls).
C12_BaseLevelSorted ==
  LET c == LevelChain(0)
  IN /\ {c[k] : k \in 1..Len(c)} = Stored
     /\ Len(c) = Cardinality(Stored)
     /\ \A k \in 1..(Len(c) - 1) :
           \/ heap[c[k]].V < heap[c[k + 1]].V
           \/ heap[c[k]].V = heap[c[k + 1]].V /\ c[k] < c[k + 1]

\* after a Remove, in a skiplist of height 1 at least, the node just
\* inserted stands right behind a node of the same Value and is not the last
C12_Witness ==
  /\ gone # {}
  /\ height >= 1
  /\ lastStoreOp.kind = "Insert"
  /\ \E k \in 1..(Len(LevelChain(0)) - 2) :
        /\ LevelChain(0)[k + 1] = lastStoreOp.node
        /\ heap[LevelChain(0)[k]].V = heap[lastStoreOp.node].V

\* x.next[i] and x.prev[i], nil where the slice of x has no slot i
NextAt(h, x, i) == IF i < Len(h[x].next) THEN h[x].next[i + 1] ELSE Nil

PrevAt(h, x, i) == IF i < Len(h[x].prev) THEN h[x].prev[i + 1] ELSE Nil

AllLevels == 0..(maxHeight - 1)

\* the nodes on a chain
OnChain(c) == {c[k] : k \in 1..Len(c)}

\* c holds no node twice, only nodes of b, in the order they have in b: b
\* without the nodes that are not on c is c
IsSubsequence(c, b) ==
  LET onC == OnChain(c)
      IsOnC(x) == x \in onC
  IN SelectSeq(b, IsOnC) = c

\* the levels at which some node has a slot or the head a link; at every
\* other level all chains are empty and no link exists
LinkedLevels ==
  {i \in AllLevels :
     \/ heap[HeadNode].next[i + 1] # Nil
     \/ \E x \in DOMAIN heap \ {HeadNode} : i < Len(heap[x].next)}

\* the links of a skiplist hang together
LinksConsistent ==
  LET levels == LinkedLevels
      base == LevelChain(0)
  IN /\ \A i \in levels :
           LET c == LevelChain(i)
           IN IsSubsequence(c, base) /\ OnChain(c) \cap gone = {}
     /\ \A i \in levels, x \in DOMAIN heap :
           /\ NextAt(heap, x, i) \notin gone
           /\ PrevAt(heap, x, i) \notin gone
           /\ NextAt(heap, x, i) # Nil => PrevAt(heap, NextAt(heap, x, i), i) = x
           /\ PrevAt(heap, x, i) # Nil => NextAt(heap, PrevAt(heap, x, i), i) = x
     /\ Stored \subseteq OnChain(base)

\* a Remove of node n changes, at each level, the next link of n's
\* predecessor and the prev link of n's successor, and no other link of
\* another node
RemoveTouchesNeighboursOnly ==
  lastStoreOp'.kind = "Remove" /\ gone' # gone =>
     LET n == lastStoreOp'.node
         levels == LinkedLevels
     IN \A i \in levels, x \in DOMAIN heap \ {n} :
           /\ NextAt(heap', x, i) # NextAt(heap, x, i) => x = PrevAt(heap, n, i)
           /\ PrevAt(heap', x, i) # PrevAt(heap, x, i) => x = NextAt(heap, n, i)

\* C19: after any Inserts and Removes of stored nodes, whatever levels were
\* drawn, the forward chain of every level is a subsequence of the base
\* chain, x.next[i] = y exactly when y.prev[i] = x, a removed node is linked
\* at no level, every stored node is on the base chain, and a Remove changes
\* no link other than those of the removed node's neighbours.
C19_LinkConsistency ==
  /\ []LinksConsistent
  /\ [][RemoveTouchesNeighboursOnly]_vars

\* a node with two levels at least has just been removed from a skiplist
\* of height 2 that still holds nodes at level 1
C19_Witness ==
  /\ lastStoreOp.kind = "Remove"
  /\ Len(heap[lastStoreOp.node].next) >= 2
  /\ height >= 2
  /\ Len(LevelChain(1)) >= 2
  /\ Len(LevelChain(0)) > Len(LevelChain(1))

\* the places <<map, key, position>> at which a graph map holds span ID id
Holders(id) ==
  {h \in UNION {{<<m, k, n>> : n \in 1..Len(maps[m][k])} :
                  <<m, k>> \in UNION {{<<m, k>> : k \in DOMAIN maps[m]} : m \in 1..Len(maps)}} :
       maps[h[1]][h[2]][h[3]] = id}

SwappedMaps == {swapped[n] : n \in 1..Len(swapped)}

\* every accepted span ID is held once, by the accumulation map or by a
\* map a flush has swapped out; no map is swapped out twice or while it is
\* the accumulation map
AcceptedHeldOnce ==
  /\ \A id \in accepted :
        /\ Cardinality(Holders(id)) = 1
        /\ \A h \in Holders(id) : h[1] = graph \/ h[1] \in SwappedMaps
  /\ Cardinality(SwappedMaps) = Len(swapped)
  /\ graph \notin SwappedMaps

\* a span ID is in the accumulation map when AddSpan returns, and a map is
\* not changed after its flush
FlushKeepsSpans ==
  /\ \A id \in accepted' \ accepted : \A h \in Holders(id)' : h[1] = graph'
  /\ \A m \in SwappedMaps : maps'[m] = maps[m]

\* C20: however AddSpan and FlushOnChannel calls of concurrent callers
\* interleave, every span ID AddSpan accepted is contained in exactly one
\* graph map, once: the accumulation map, or the map one later flush
\* swapped out.
C20_FlushLosesNothing ==
  /\ []AcceptedHeldOnce
  /\ [][FlushKeepsSpans]_vars

\* an accepted span ID sits in a swapped-out map, while a caller that has
\* stored another one in the accumulation map still holds the mutex and the
\* other caller waits for it to flush
C20_Witness ==
  /\ \E id \in accepted : \E h \in Holders(id) : h[1] \in SwappedMaps
  /\ \E c \in Callers :
        /\ pc[c].at = "add_unlock"
        /\ mu = c
        /\ \E h \in Holders(pc[c].s.SpanID) : h[1] = graph
  /\ \E c \in Callers : pc[c].at = "flush_lock"

\* the goroutines were started in the order of the flushes, as the one
\* run loop starts them: goroutine k holds the graph of the k-th flush
StartedInFlushOrder ==
  \A k \in 1..Len(flushers) : flushers[k].graph = swapped[k]

\* C21: the graph the k-th flush swapped out is attached to the k-th
\* payload received on inPayload, and the payloads leave on outPayload in
\* that order, however the goroutines of FlushOnChannel are scheduled: the
\* n-th payload emitted is the n-th received and carries the n-th graph.
C21_PairedInFlushOrder ==
  StartedInFlushOrder =>
     /\ \A k \in 1..Len(flushers) :
           flushers[k].at = "send" =>
              flushers[k].ap.Graph = swapped[flushers[k].ap.payload]
     /\ \A n \in 1..Len(outPayload) :
           /\ outPayload[n].payload = n
           /\ outPayload[n].Graph = swapped[n]

\* a statement of a call in progress in caller c: everything between the
\* entry of AddSpan or FlushOnChannel and its return
CallerStep(c) ==
  \/ AddSpanLock(c)
  \/ AddSpanLookup(c)
  \/ AddSpanRead(c)
  \/ AddSpanStore(c)
  \/ AddSpanNew(c)
  \/ AddSpanUnlock(c)
  \/ FlushLock(c)
  \/ FlushRead(c)
  \/ FlushMake(c)
  \/ FlushUnlock(c)
  \/ FlushGo(c)

\* the Go scheduler runs every goroutine that can take a step: a call in
\* progress goes on, a goroutine of FlushOnChannel receives while a payload
\* is on offer and sends while outPayload is read. Nothing obliges spans,
\* flush markers or payloads to arrive.
SpecGrapherFair ==
  /\ Init /\ [][NextGrapher]_vars
  /\ \A c \in Callers : WF_vars(CallerStep(c))
  /\ \A k \in 1..MaxFlushes :
        WF_vars(FlusherReceive(k)) /\ WF_vars(FlusherSend(k))

\* payload p has left on outPayload, once, with a graph that a flush
\* swapped out
Emitted(p) ==
  \E n \in 1..Len(outPayload) :
     /\ outPayload[n].payload = p
     /\ outPayload[n].Graph \in SwappedMaps
     /\ \A m \in 1..Len(outPayload) : outPayload[m].payload = p => m = n

\* no more payloads emitted than flush markers processed or payloads
\* received, no payload and no swapped graph emitted twice
EmittedWithinBounds ==
  /\ Len(outPayload) <= flushes
  /\ Len(outPayload) <= payloads
  /\ \A n, m \in 1..Len(outPayload) :
        n # m => /\ outPayload[n].payload # outPayload[m].payload
                 /\ outPayload[n].Graph # outPayload[m].Graph
  /\ \A n \in 1..Len(outPayload) : outPayload[n].Graph \in SwappedMaps

\* C22: a flush does not block ingestion and completes once a payload comes:
\* a call of AddSpan or FlushOnChannel in progress returns whether or not any
\* payload arrives, so spans are accepted while flushes wait; the p-th
\* payload offered on inPayload, when at least p flush markers have been
\* processed, is eventually emitted on outPayload exactly once carrying a
\* swapped-out graph; and the payloads emitted never outnumber the flush
\* markers processed nor the payloads received.
C22_FlushCompletes ==
  /\ []EmittedWithinBounds
  /\ \A c \in Callers : (pc[c] # Idle) ~> (pc[c] = Idle)
  /\ \A p \in 1..MaxPayloads :
        (flushes >= p /\ payloads + Len(inPayload) >= p) ~> Emitted(p)

\* the goroutine of the first flush has emitted its payload, the goroutine
\* of the second flush still waits for one, and a span was accepted into
\* the accumulation map made by that second flush
C22_Witness ==
  /\ Len(flushers) = 2
  /\ flushers[1].at = "done"
  /\ flushers[2].at = "recv"
  /\ Emitted(1)
  /\ graph > flushers[2].graph
  /\ \E id \in accepted : \E k \in DOMAIN maps[graph] :
        \E i \in 1..Len(maps[graph][k]) : maps[graph][k][i] = id

\* C23: AddSpan accumulates a record only if it carries an inbound and an
\* outbound host; a record missing either one leaves the maps as they are,
\* so no map ever holds a key with an empty inbound or outbound host.
C23_BothHostsOrUnchanged ==
  \A m \in 1..Len(maps) : \A k \in DOMAIN maps[m] : k[1] # "" /\ k[2] # ""

====
